---- MODULE Spec2Model ----
(***************************************************************************)
(* Model of should_invest (src/app.py): a weighted, rule-based classifier  *)
(* over nine financial ratios.  The weights, the score, the total weight   *)
(* and the normalised score are Python floats (IEEE-754 binary64), so the  *)
(* model carries them as binary64 values and rounds every product, sum and *)
(* quotient to nearest, ties to even, as CPython does.                     *)
(***************************************************************************)
EXTENDS Integers, Sequences, FiniteSets, TLC

(***************************************************************************)
(* Natural numbers wider than TLC's 32-bit integers: little-endian         *)
(* sequences of limbs in base 2^14, without leading zero limbs.            *)
(***************************************************************************)
RECURSIVE Pow2(_)
Pow2(k) == IF k = 0 THEN 1 ELSE 2 * Pow2(k - 1)

LimbBits == 14
Base == Pow2(LimbBits)

\* the bits of a binary64 significand
MantBits == 53

RECURSIVE Trim(_)
Trim(s) ==
  IF s = <<>> THEN <<>>
  ELSE IF s[Len(s)] = 0 THEN Trim(SubSeq(s, 1, Len(s) - 1))
  ELSE s

RECURSIVE Carry(_, _)
Carry(s, c) ==
  IF s = <<>> THEN (IF c = 0 THEN <<>> ELSE <<c % Base>> \o Carry(<<>>, c \div Base))
  ELSE LET t == Head(s) + c IN <<t % Base>> \o Carry(Tail(s), t \div Base)

Limb(a, i) == IF i >= 1 /\ i <= Len(a) THEN a[i] ELSE 0

MaxOf(x, y) == IF x >= y THEN x ELSE y

BigFromInt(k) == Carry(<<>>, k)

BigAdd(a, b) ==
  Carry([i \in 1..MaxOf(Len(a), Len(b)) |-> Limb(a, i) + Limb(b, i)], 0)

\* -1, 0 or 1 as a < b, a = b, a > b: by length, then from the top limb down
RECURSIVE BigCmpFrom(_, _, _)
BigCmpFrom(a, b, i) ==
  IF i = 0 THEN 0
  ELSE IF a[i] < b[i] THEN -1
  ELSE IF a[i] > b[i] THEN 1
  ELSE BigCmpFrom(a, b, i - 1)

BigCmp(a, b) ==
  IF Len(a) < Len(b) THEN -1
  ELSE IF Len(a) > Len(b) THEN 1
  ELSE BigCmpFrom(a, b, Len(a))

\* a - b for a >= b
RECURSIVE Borrow(_, _, _, _)
Borrow(a, b, i, br) ==
  IF i > Len(a) THEN <<>>
  ELSE LET t == a[i] - Limb(b, i) - br IN
       IF t < 0 THEN <<t + Base>> \o Borrow(a, b, i + 1, 1)
       ELSE <<t>> \o Borrow(a, b, i + 1, 0)

BigSub(a, b) == Trim(Borrow(a, b, 1, 0))

RECURSIVE ColSum(_, _, _, _)
ColSum(a, b, k, i) ==
  IF i > Len(a) THEN 0
  ELSE Limb(a, i) * Limb(b, k + 1 - i) + ColSum(a, b, k, i + 1)

\* schoolbook product; operands of at most four limbs keep every column
\* sum below 2^31
BigMul(a, b) ==
  IF a = <<>> \/ b = <<>> THEN <<>>
  ELSE Trim(Carry([k \in 1..(Len(a) + Len(b) - 1) |-> ColSum(a, b, k, 1)], 0))

\* a * 2^k
BigShl(a, k) ==
  LET q == k \div LimbBits
      r == k % LimbBits
      p == Pow2(r)
  IN  IF a = <<>> THEN <<>>
      ELSE [i \in 1..q |-> 0] \o Carry([i \in 1..Len(a) |-> a[i] * p], 0)

\* floor(a / 2^k)
BigShr(a, k) ==
  LET q == k \div LimbBits
      r == k % LimbBits
      p == Pow2(r)
      n == Len(a) - q
  IN  IF n <= 0 THEN <<>>
      ELSE Trim([i \in 1..n |->
                   (a[i + q] \div p) + (Limb(a, i + q + 1) % p) * (Base \div p)])

\* a mod 2^k = 0
BigLowZero(a, k) ==
  LET q == k \div LimbBits
      r == k % LimbBits
  IN  /\ \A i \in 1..q : Limb(a, i) = 0
      /\ Limb(a, q + 1) % Pow2(r) = 0

\* bit k of a, counted from 0
BigBit(a, k) == (Limb(a, (k \div LimbBits) + 1) \div Pow2(k % LimbBits)) % 2

RECURSIVE IntBitLen(_)
IntBitLen(n) == IF n = 0 THEN 0 ELSE 1 + IntBitLen(n \div 2)

BigBitLen(a) ==
  IF a = <<>> THEN 0 ELSE LimbBits * (Len(a) - 1) + IntBitLen(a[Len(a)])

BigOdd(a) == Limb(a, 1) % 2 = 1

(***************************************************************************)
(* binary64.  A positive value is [m, e] with 2^52 <= m < 2^53 and value   *)
(* m * 2^e; zero is [<<>>, 0].  should_invest forms no negative float, no  *)
(* subnormal, no infinity and no NaN, so none is represented.              *)
(***************************************************************************)
FZero == [m |-> <<>>, e |-> 0]

IsZero(x) == x.m = <<>>

\* n * 2^e (n > 0) rounded to nearest, ties to even
Round(n, e) ==
  LET L == BigBitLen(n) IN
  IF L <= MantBits THEN [m |-> BigShl(n, MantBits - L), e |-> e - (MantBits - L)]
  ELSE LET s      == L - MantBits
           q      == BigShr(n, s)
           half   == BigBit(n, s - 1) = 1
           sticky == ~BigLowZero(n, s - 1)
           up     == half /\ (sticky \/ BigOdd(q))
           q1     == IF up THEN BigAdd(q, <<1>>) ELSE q
       IN  IF BigBitLen(q1) > MantBits
           THEN [m |-> BigShr(q1, 1), e |-> e + s + 1]
           ELSE [m |-> q1, e |-> e + s]

FInt(k) == IF k = 0 THEN FZero ELSE Round(BigFromInt(k), 0)

FMul(x, y) ==
  IF IsZero(x) \/ IsZero(y) THEN FZero
  ELSE Round(BigMul(x.m, y.m), x.e + y.e)

FAdd(x, y) ==
  IF IsZero(x) THEN y
  ELSE IF IsZero(y) THEN x
  ELSE IF x.e >= y.e
       THEN Round(BigAdd(BigShl(x.m, x.e - y.e), y.m), y.e)
       ELSE Round(BigAdd(BigShl(y.m, y.e - x.e), x.m), x.e)

\* one step of binary long division by d: the next quotient bit and the
\* remainder left, for st.rest < d
DivStep(st, d) ==
  LET r2 == BigShl(st.rest, 1)
      q2 == BigShl(st.quot, 1)
  IN  IF BigCmp(r2, d) >= 0
      THEN [quot |-> BigAdd(q2, <<1>>), rest |-> BigSub(r2, d)]
      ELSE [quot |-> q2, rest |-> r2]

\* k steps: quotient and remainder of (st.rest * 2^k) / d; once the
\* remainder is zero the quotient bits left are zeros
RECURSIVE DivBits(_, _, _)
DivBits(st, d, k) ==
  IF st.rest = <<>> THEN [quot |-> BigShl(st.quot, k), rest |-> <<>>]
  ELSE IF k = 0 THEN st
  ELSE DivBits(DivStep(st, d), d, k - 1)

\* x / y for y > 0: three quotient bits more than the significand holds
\* and a sticky bit,
\* then one rounding
FDiv(x, y) ==
  IF IsZero(x) THEN FZero
  ELSE LET k  == MantBits + 3
           q0 == IF BigCmp(x.m, y.m) >= 0 THEN <<1>> ELSE <<>>
           r0 == IF BigCmp(x.m, y.m) >= 0 THEN BigSub(x.m, y.m) ELSE x.m
           qr == DivBits([quot |-> q0, rest |-> r0], y.m, k)
           n  == BigAdd(BigShl(qr.quot, 1), IF qr.rest = <<>> THEN <<>> ELSE <<1>>)
       IN  Round(n, x.e - y.e - k - 1)

FCmp(x, y) ==
  IF IsZero(x) THEN (IF IsZero(y) THEN 0 ELSE -1)
  ELSE IF IsZero(y) THEN 1
  ELSE IF x.e < y.e THEN -1
  ELSE IF x.e > y.e THEN 1
  ELSE BigCmp(x.m, y.m)

FGe(x, y) == FCmp(x, y) >= 0
FEq(x, y) == FCmp(x, y) = 0

\* the float a decimal literal n/d denotes: the binary64 nearest to it
Dec(n, d) == FDiv(FInt(n), FInt(d))

(***************************************************************************)
(* should_invest.  A metric argument is None or a number; a number is held *)
(* in thousandths (1.499 is 1499).  Every threshold a metric is compared   *)
(* with (0, 1, 1.5, 2, 5, 10, -10, 15, 25) is a binary64 value, so the     *)
(* comparison of the decimal decides as the comparison of the float does.  *)
(***************************************************************************)
VARIABLES pc, idx, args, weights, score, total_weight, normalized_score,
          result, calls, returned

vars == <<pc, idx, args, weights, score, total_weight, normalized_score,
          result, calls, returned>>

None == <<>>
Some(v) == <<v>>

Metrics == <<"current_ratio", "debt_to_equity", "roe", "pe_ratio",
             "eps_growth", "free_cash_flow", "net_profit_margin",
             "dividend_yield", "beta">>

MetricNames == {Metrics[i] : i \in 1..Len(Metrics)}

\* variant: absent metrics count as zero
default_values_zero ==
  [current_ratio     |-> 0,
   debt_to_equity    |-> 0,
   roe               |-> 0,
   pe_ratio          |-> 0,
   eps_growth        |-> 0,
   free_cash_flow    |-> 0,
   net_profit_margin |-> 0,
   dividend_yield    |-> 0,
   beta              |-> 0]

default_values ==
  [current_ratio     |-> 1500,
   debt_to_equity    |-> 1000,
   roe               |-> 12000,
   pe_ratio          |-> 20000,
   eps_growth        |-> 5000,
   free_cash_flow    |-> 0,
   net_profit_margin |-> 8000,
   dividend_yield    |-> 2000,
   beta              |-> 1000]

industry_sensitivity ==
  [tech    |-> [pe_ratio |-> Dec(15, 10), eps_growth |-> Dec(20, 10),
                roe |-> Dec(12, 10)],
   finance |-> [debt_to_equity |-> Dec(18, 10), roe |-> Dec(15, 10),
                dividend_yield |-> Dec(15, 10)],
   energy  |-> [free_cash_flow |-> Dec(15, 10), debt_to_equity |-> Dec(15, 10),
                dividend_yield |-> Dec(15, 10)]]

\* the table `weights` is bound to on entry, built anew by every call
balanced_weights ==
  [current_ratio     |-> Dec(10, 10),
   debt_to_equity    |-> Dec(15, 10),
   roe               |-> Dec(15, 10),
   pe_ratio          |-> Dec(12, 10),
   eps_growth        |-> Dec(15, 10),
   free_cash_flow    |-> Dec(13, 10),
   net_profit_margin |-> Dec(12, 10),
   dividend_yield    |-> Dec(12, 10),
   beta              |-> Dec(10, 10)]

\* weights = {...}: the table a call starts from
\* variant: the table is shared, a call starts from what the last call left
weights_on_entry_kept == IF pc = "done" THEN weights ELSE balanced_weights

weights_on_entry == balanced_weights

preference_weights ==
  [growth   |-> [eps_growth |-> Dec(20, 10), pe_ratio |-> Dec(17, 10)],
   value    |-> [dividend_yield |-> Dec(20, 10), pe_ratio |-> Dec(8, 10)],
   dividend |-> [dividend_yield |-> Dec(25, 10), free_cash_flow |-> Dec(17, 10)]]

\* the credit factors 1 and 0.5 and the float literals of the label
\* thresholds
full_credit == FInt(1)
half_credit == Dec(5, 10)
strong_buy_threshold == Dec(75, 100)
buy_threshold == Dec(55, 100)
hold_threshold == Dec(35, 100)

\* weights[key] *= multiplier for every key of the industry's table
industry_adjusted(w, industry) ==
  IF industry # None /\ industry[1] \in DOMAIN industry_sensitivity
  THEN LET mult == industry_sensitivity[industry[1]] IN
       [k \in DOMAIN w |->
          IF k \in DOMAIN mult THEN FMul(w[k], mult[k]) ELSE w[k]]
  ELSE w

\* weights.update({...}) of the preference's branch
\* variant: the preference table multiplies the weights it names
preference_adjusted_scaling(w, investor_preference) ==
  IF investor_preference \in DOMAIN preference_weights
  THEN LET upd == preference_weights[investor_preference]
       IN  [k \in DOMAIN w |-> IF k \in DOMAIN upd THEN FMul(w[k], upd[k]) ELSE w[k]]
  ELSE w

preference_adjusted(w, investor_preference) ==
  IF investor_preference \in DOMAIN preference_weights
  THEN LET upd == preference_weights[investor_preference] IN
       [k \in (DOMAIN w) \cup (DOMAIN upd) |->
          IF k \in DOMAIN upd THEN upd[k] ELSE w[k]]
  ELSE w

\* variant: an absent metric reads as zero
get_metric_value_zero(metric, default_value) ==
  IF metric # None THEN metric[1] ELSE 0

get_metric_value(metric, default_value) ==
  IF metric # None THEN metric[1] ELSE default_value

\* the branch a metric's if/elif takes: 2 the first (w * 1), 1 the elif
\* (w * 0.5), 0 neither
\* variant: the full-credit boundary of current_ratio is strict
current_ratio_tier_strict(v) == IF v > 1500 THEN 2 ELSE IF v >= 1000 THEN 1 ELSE 0

current_ratio_tier(v) == IF v >= 1500 THEN 2 ELSE IF v >= 1000 THEN 1 ELSE 0

debt_to_equity_tier(v) == IF v < 1000 THEN 2 ELSE IF v < 2000 THEN 1 ELSE 0

\* variant: roe is scored as a metric where lower is better
roe_tier_inverted(v) == IF v < 10000 THEN 2 ELSE IF v < 15000 THEN 1 ELSE 0

roe_tier(v) == IF v > 15000 THEN 2 ELSE IF v > 10000 THEN 1 ELSE 0

pe_ratio_tier(v) == IF v < 15000 THEN 2 ELSE IF v < 25000 THEN 1 ELSE 0

eps_growth_tier(v) == IF v > 0 THEN 2 ELSE IF v > -10000 THEN 1 ELSE 0

free_cash_flow_tier(v) == IF v > 0 THEN 2 ELSE 0

net_profit_margin_tier(v) == IF v > 10000 THEN 2 ELSE IF v > 5000 THEN 1 ELSE 0

\* variant: dividend_yield has a half-credit tier
dividend_yield_tier_halved(v) == IF v > 5000 THEN 2 ELSE IF v > 2000 THEN 1 ELSE 0

dividend_yield_tier(v) == IF v > 2000 THEN 2 ELSE 0

beta_tier(v) == IF v < 1000 THEN 2 ELSE IF v < 1500 THEN 1 ELSE 0

tier(name, v) ==
  CASE name = "current_ratio"     -> current_ratio_tier(v)
    [] name = "debt_to_equity"    -> debt_to_equity_tier(v)
    [] name = "roe"               -> roe_tier(v)
    [] name = "pe_ratio"          -> pe_ratio_tier(v)
    [] name = "eps_growth"        -> eps_growth_tier(v)
    [] name = "free_cash_flow"    -> free_cash_flow_tier(v)
    [] name = "net_profit_margin" -> net_profit_margin_tier(v)
    [] name = "dividend_yield"    -> dividend_yield_tier(v)
    [] name = "beta"              -> beta_tier(v)

\* one metric's block: score += weights[name] * 1 or * 0.5, or nothing, and
\* total_weight += weights[name]
\* variant: a metric's weight is counted only when the metric earns credit
metric_block_credited_only(acc, w, name, metric) ==
  LET v == get_metric_value(metric, default_values[name])
      t == tier(name, v)
  IN  IF t = 2
      THEN [score |-> FAdd(acc.score, FMul(w[name], full_credit)),
            total_weight |-> FAdd(acc.total_weight, w[name])]
      ELSE IF t = 1
      THEN [score |-> FAdd(acc.score, FMul(w[name], half_credit)),
            total_weight |-> FAdd(acc.total_weight, w[name])]
      ELSE acc

\* variant: the weight of a metric is never added to the total
metric_block_untallied(acc, w, name, metric) ==
  LET v == get_metric_value(metric, default_values[name])
      t == tier(name, v)
  IN  [score |-> IF t = 2 THEN FAdd(acc.score, FMul(w[name], full_credit))
                 ELSE IF t = 1 THEN FAdd(acc.score, FMul(w[name], half_credit))
                 ELSE acc.score,
       total_weight |-> acc.total_weight]

metric_block(acc, w, name, metric) ==
  LET v == get_metric_value(metric, default_values[name])
      t == tier(name, v)
  IN  [score |-> IF t = 2 THEN FAdd(acc.score, FMul(w[name], full_credit))
                 ELSE IF t = 1 THEN FAdd(acc.score, FMul(w[name], half_credit))
                 ELSE acc.score,
       total_weight |-> FAdd(acc.total_weight, w[name])]

Insufficient == "Insufficient Data"
StrongBuy == "Strong Buy: High confidence in investment potential."
Buy == "Buy: Good opportunity with solid metrics."
Hold == "Hold: Monitor the situation closely."
Sell == "Sell: Consider reallocating investments."

\* variant: the label boundaries are strict
recommendation_strict(ns) ==
  IF FCmp(ns, strong_buy_threshold) > 0 THEN StrongBuy
  ELSE IF FCmp(ns, buy_threshold) > 0 THEN Buy
  ELSE IF FCmp(ns, hold_threshold) > 0 THEN Hold
  ELSE Sell

recommendation(ns) ==
  IF FGe(ns, strong_buy_threshold) THEN StrongBuy
  ELSE IF FGe(ns, buy_threshold) THEN Buy
  ELSE IF FGe(ns, hold_threshold) THEN Hold
  ELSE Sell

\* the accumulators after the first i metric blocks; each block is handed
\* the accumulators of the blocks before it as a value
RECURSIVE accumulate(_, _, _)
accumulate(a, w, i) ==
  IF i = 0 THEN [score |-> FZero, total_weight |-> FZero]
  ELSE CHOOSE acc \in {metric_block(before, w, Metrics[i], a[Metrics[i]]) :
                          before \in {accumulate(a, w, i - 1)}} : TRUE

\* the whole call as a function of its arguments
should_invest(a) ==
  LET w   == preference_adjusted(industry_adjusted(weights_on_entry, a.industry),
                                 a.investor_preference)
      acc == accumulate(a, w, Len(Metrics))
  IN  IF IsZero(acc.total_weight) THEN Insufficient
      ELSE recommendation(FDiv(acc.score, acc.total_weight))

(***************************************************************************)
(* The calls.  A call binds its arguments and its locals (Call), adjusts   *)
(* the weights (AdjustIndustry, AdjustPreference), runs the nine metric    *)
(* blocks in order (ScoreMetric) and returns its label (Recommend).        *)
(* `returned` is what the callers have seen: the pairs of arguments and    *)
(* label of the calls that returned.                                       *)
(***************************************************************************)
MaxCalls == 3

Unset == <<>>

Industries == {None, Some("tech"), Some("finance"), Some("energy"), Some("retail")}
Preferences == {"balanced", "growth", "value", "dividend", "income"}

Samples ==
  [current_ratio     |-> {500, 1000, 1499, 1500, 2000},
   debt_to_equity    |-> {500, 999, 1000, 1999, 2000},
   roe               |-> {8000, 10000, 12000, 15000, 16000, 20000},
   pe_ratio          |-> {12000, 14999, 15000, 20000, 25000},
   eps_growth        |-> {-10000, -5000, 0, 5000, 10000},
   free_cash_flow    |-> {-1000, 0, 1000, 1000000000},
   net_profit_margin |-> {5000, 8000, 10000, 15000},
   dividend_yield    |-> {0, 2000, 2001, 3000},
   beta              |-> {800, 1000, 1499, 1500}]

AllAbsent == [k \in MetricNames |-> None]

\* every metric in its first branch
FullCredit ==
  [current_ratio     |-> Some(2000),
   debt_to_equity    |-> Some(500),
   roe               |-> Some(20000),
   pe_ratio          |-> Some(12000),
   eps_growth        |-> Some(10000),
   free_cash_flow    |-> Some(1000000000),
   net_profit_margin |-> Some(15000),
   dividend_yield    |-> Some(3000),
   beta              |-> Some(800)]

\* three quarters of the balanced weight earned
ThreeQuarters ==
  [current_ratio     |-> Some(500),
   debt_to_equity    |-> Some(1000),
   roe               |-> Some(20000),
   pe_ratio          |-> Some(20000),
   eps_growth        |-> Some(10000),
   free_cash_flow    |-> Some(1000),
   net_profit_margin |-> Some(15000),
   dividend_yield    |-> Some(3000),
   beta              |-> Some(1000)]

\* three quarters of the tech weight earned
TechThreeQuarters ==
  [current_ratio     |-> Some(1000),
   debt_to_equity    |-> Some(1000),
   roe               |-> Some(12000),
   pe_ratio          |-> Some(12000),
   eps_growth        |-> Some(10000),
   free_cash_flow    |-> Some(0),
   net_profit_margin |-> Some(15000),
   dividend_yield    |-> Some(3000),
   beta              |-> Some(800)]

Bases == {AllAbsent, FullCredit, ThreeQuarters, TechThreeQuarters}

\* a base, or a base with one metric absent or set to one of its samples
Profiles ==
  Bases \cup
  UNION {{[b EXCEPT ![k] = v] : v \in {None} \cup {Some(n) : n \in Samples[k]}} :
           b \in Bases, k \in MetricNames}

WithTags(p, industry, investor_preference) ==
  [k \in MetricNames \cup {"industry", "investor_preference"} |->
     IF k = "industry" THEN industry
     ELSE IF k = "investor_preference" THEN investor_preference
     ELSE p[k]]

Inputs ==
  {WithTags(p, i, ip) : p \in Profiles, i \in Industries, ip \in Preferences}

RepeatInputs ==
  {WithTags(p, i, ip) : p \in {AllAbsent, TechThreeQuarters},
                        i \in {None, Some("tech")},
                        ip \in {"balanced", "growth"}}

Init ==
  /\ pc = "idle"
  /\ idx = 0
  /\ args = Unset
  /\ weights = Unset
  /\ score = Unset
  /\ total_weight = Unset
  /\ normalized_score = Unset
  /\ result = Unset
  /\ calls = 0
  /\ returned = {}

Call(a) ==
  /\ pc \in {"idle", "done"}
  /\ calls < MaxCalls
  /\ calls' = calls + 1
  /\ args' = a
  /\ score' = FZero
  /\ total_weight' = FZero
  /\ weights' = weights_on_entry
  /\ normalized_score' = Unset
  /\ result' = Unset
  /\ idx' = 0
  /\ pc' = "industry"
  /\ UNCHANGED returned

FirstCall(a) ==
  /\ pc = "idle"
  /\ Call(a)

AdjustIndustry ==
  /\ pc = "industry"
  /\ weights' = industry_adjusted(weights, args.industry)
  /\ pc' = "preference"
  /\ UNCHANGED <<idx, args, score, total_weight, normalized_score, result,
                 calls, returned>>

AdjustPreference ==
  /\ pc = "preference"
  /\ weights' = preference_adjusted(weights, args.investor_preference)
  /\ pc' = "metrics"
  /\ idx' = 1
  /\ UNCHANGED <<args, score, total_weight, normalized_score, result, calls,
                 returned>>

ScoreMetric ==
  /\ pc = "metrics"
  /\ LET acc == metric_block([score |-> score, total_weight |-> total_weight],
                             weights, Metrics[idx], args[Metrics[idx]])
     IN  /\ score' = acc.score
         /\ total_weight' = acc.total_weight
  /\ idx' = idx + 1
  /\ pc' = IF idx = Len(Metrics) THEN "recommend" ELSE "metrics"
  /\ UNCHANGED <<args, weights, normalized_score, result, calls, returned>>

Recommend ==
  /\ pc = "recommend"
  /\ IF IsZero(total_weight)
     THEN /\ result' = Insufficient
          /\ UNCHANGED normalized_score
     ELSE /\ normalized_score' = FDiv(score, total_weight)
          /\ result' = recommendation(normalized_score')
  /\ returned' = returned \cup {<<args, result'>>}
  /\ pc' = "done"
  /\ UNCHANGED <<idx, args, weights, score, total_weight, calls>>

Steps == AdjustIndustry \/ AdjustPreference \/ ScoreMetric \/ Recommend

\* one call, with any input
Next == (\E a \in Inputs : FirstCall(a)) \/ Steps

Spec == Init /\ [][Next]_vars

\* up to MaxCalls calls, one after another
NextCalls == (\E a \in RepeatInputs : Call(a)) \/ Steps

SpecCalls == Init /\ [][NextCalls]_vars

(***************************************************************************)
(* The specification's tables, as the specification words them, and the    *)
(* floats its decimal numbers denote.                                      *)
(***************************************************************************)
Lit_0_35 == Dec(35, 100)
Lit_0_5 == Dec(5, 10)
Lit_0_55 == Dec(55, 100)
Lit_0_75 == Dec(75, 100)
Lit_1_0 == Dec(10, 10)
Lit_1_2 == Dec(12, 10)
Lit_1_3 == Dec(13, 10)
Lit_1_5 == Dec(15, 10)
Lit_1_7 == Dec(17, 10)
Lit_1_8 == Dec(18, 10)
Lit_2_0 == Dec(20, 10)
Lit_2_25 == Dec(225, 100)
Lit_2_7 == Dec(27, 10)
Lit_5_7 == Dec(57, 10)
Lit_11_4 == Dec(114, 10)
Lit_13_95 == Dec(1395, 100)

\* the float next below x, for x not a power of two
FPrev(x) == [m |-> BigSub(x.m, <<1>>), e |-> x.e]

SpecDefaults ==
  [current_ratio     |-> 1500,
   debt_to_equity    |-> 1000,
   roe               |-> 12000,
   pe_ratio          |-> 20000,
   eps_growth        |-> 5000,
   free_cash_flow    |-> 0,
   net_profit_margin |-> 8000,
   dividend_yield    |-> 2000,
   beta              |-> 1000]

SpecBaseWeights ==
  [current_ratio     |-> Lit_1_0,
   debt_to_equity    |-> Lit_1_5,
   roe               |-> Lit_1_5,
   pe_ratio          |-> Lit_1_2,
   eps_growth        |-> Lit_1_5,
   free_cash_flow    |-> Lit_1_3,
   net_profit_margin |-> Lit_1_2,
   dividend_yield    |-> Lit_1_2,
   beta              |-> Lit_1_0]

\* the threshold table: the credit of a metric's effective value
SpecCredit(name, v) ==
  CASE name = "current_ratio" ->
         IF v >= 1500 THEN "full"
         ELSE IF v >= 1000 /\ v < 1500 THEN "half" ELSE "zero"
    [] name = "debt_to_equity" ->
         IF v < 1000 THEN "full"
         ELSE IF v < 2000 /\ v >= 1000 THEN "half" ELSE "zero"
    [] name = "roe" ->
         IF v > 15000 THEN "full"
         ELSE IF v > 10000 /\ v <= 15000 THEN "half" ELSE "zero"
    [] name = "pe_ratio" ->
         IF v < 15000 THEN "full"
         ELSE IF v < 25000 /\ v >= 15000 THEN "half" ELSE "zero"
    [] name = "eps_growth" ->
         IF v > 0 THEN "full"
         ELSE IF v > -10000 /\ v <= 0 THEN "half" ELSE "zero"
    [] name = "free_cash_flow" ->
         IF v > 0 THEN "full" ELSE "zero"
    [] name = "net_profit_margin" ->
         IF v > 10000 THEN "full"
         ELSE IF v > 5000 /\ v <= 10000 THEN "half" ELSE "zero"
    [] name = "dividend_yield" ->
         IF v > 2000 THEN "full" ELSE "zero"
    [] name = "beta" ->
         IF v < 1000 THEN "full"
         ELSE IF v < 1500 /\ v >= 1000 THEN "half" ELSE "zero"

\* credit times weight
Credited(w, credit) ==
  IF credit = "full" THEN FMul(w, Lit_1_0)
  ELSE IF credit = "half" THEN FMul(w, Lit_0_5)
  ELSE FZero

\* the input if present, else the specification's default
Effective(a, name) == IF a[name] # None THEN a[name][1] ELSE SpecDefaults[name]

Rank(label) ==
  CASE label = Sell -> 0
    [] label = Hold -> 1
    [] label = Buy -> 2
    [] label = StrongBuy -> 3

Adjusted == pc \in {"metrics", "recommend", "done"}
Summed == pc \in {"recommend", "done"}

(***************************************************************************)
(* C1: every metric block adds to the score exactly the credit the         *)
(* threshold table gives the metric's effective value, times the metric's  *)
(* weight: the full weight, half of it, or nothing.                        *)
(***************************************************************************)
C1_TableCredit ==
  [][pc = "metrics" =>
       score' = FAdd(score,
                     Credited(weights[Metrics[idx]],
                              SpecCredit(Metrics[idx],
                                         Effective(args, Metrics[idx]))))]_vars

\* a current_ratio just below 1.5 has earned half of its weight
C1_Witness ==
  /\ pc = "metrics"
  /\ idx = 2
  /\ args.current_ratio = Some(1499)
  /\ score = FMul(weights.current_ratio, Lit_0_5)

(***************************************************************************)
(* C2: with a non-zero total weight the label is decided by                *)
(* normalized_score = score / total_weight alone: Strong Buy from 0.75 up, *)
(* else Buy from 0.55 up, else Hold from 0.35 up, else Sell.               *)
(***************************************************************************)
C2_LabelByThresholds ==
  (pc = "done" /\ ~IsZero(total_weight)) =>
    /\ normalized_score = FDiv(score, total_weight)
    /\ result = IF FGe(normalized_score, Lit_0_75) THEN StrongBuy
                ELSE IF FGe(normalized_score, Lit_0_55) THEN Buy
                ELSE IF FGe(normalized_score, Lit_0_35) THEN Hold
                ELSE Sell

\* a normalised score of exactly 0.75 is a Strong Buy
C2_Witness ==
  /\ pc = "done"
  /\ normalized_score = Lit_0_75
  /\ result = StrongBuy

(***************************************************************************)
(* C3: with the growth preference the eps_growth weight is 2.0 and the     *)
(* pe_ratio weight is 1.7 whatever the industry is.                        *)
(***************************************************************************)
C3_GrowthOverrides ==
  (Adjusted /\ args.investor_preference = "growth") =>
    /\ weights.eps_growth = Lit_2_0
    /\ weights.pe_ratio = Lit_1_7

\* tech and growth: the tech multiplier shows on roe, not on the two weights
C3_Witness ==
  /\ pc = "metrics"
  /\ args.industry = Some("tech")
  /\ args.investor_preference = "growth"
  /\ weights.eps_growth = Lit_2_0
  /\ weights.pe_ratio = Lit_1_7
  /\ weights.roe = FMul(Lit_1_5, Lit_1_2)

(***************************************************************************)
(* C4: with industry finance and the balanced preference the weights of    *)
(* debt_to_equity, roe and dividend_yield are 2.7, 2.25 and 1.8, the other *)
(* weights are the base weights, and total_weight is 13.95 whatever the    *)
(* metric values are.                                                      *)
(***************************************************************************)
C4_FinanceCall ==
  /\ args.industry = Some("finance")
  /\ args.investor_preference = "balanced"

C4_AsClaimed ==
  /\ (Adjusted /\ C4_FinanceCall) =>
       weights = [SpecBaseWeights EXCEPT !.debt_to_equity = Lit_2_7,
                                         !.roe = Lit_2_25,
                                         !.dividend_yield = Lit_1_8]
  /\ (Summed /\ C4_FinanceCall) => total_weight = Lit_13_95

\* C4 as amended: the dividend_yield weight is the float next below 1.8, the
\* rounded product of 1.2 and 1.5
C4_FinanceWeights ==
  /\ (Adjusted /\ C4_FinanceCall) =>
       weights = [SpecBaseWeights EXCEPT !.debt_to_equity = Lit_2_7,
                                         !.roe = Lit_2_25,
                                         !.dividend_yield = FPrev(Lit_1_8)]
  /\ (Summed /\ C4_FinanceCall) => total_weight = Lit_13_95

\* a finance call none of whose metrics earns credit still sums to 13.95
C4_Witness ==
  /\ pc = "done"
  /\ C4_FinanceCall
  /\ args.current_ratio = Some(500)
  /\ weights.debt_to_equity = Lit_2_7
  /\ total_weight = Lit_13_95

(***************************************************************************)
(* C5: with every metric absent, the balanced preference and no industry   *)
(* the credits are full, half, half, half, full, zero, half, zero, half;   *)
(* the score is 5.7 over a total weight of 11.4, the normalised score 0.5  *)
(* and the label Hold, on every call.                                      *)
(***************************************************************************)
C5_DefaultCall ==
  /\ \A k \in MetricNames : args[k] = None
  /\ args.industry = None
  /\ args.investor_preference = "balanced"

C5_Credits ==
  <<"full", "half", "half", "half", "full", "zero", "half", "zero", "half">>

\* the score after the first i blocks, by the credits listed
RECURSIVE C5_Score(_)
C5_Score(i) ==
  IF i = 0 THEN FZero
  ELSE CHOOSE sum \in {FAdd(before,
                            Credited(SpecBaseWeights[Metrics[i]], C5_Credits[i])) :
                         before \in {C5_Score(i - 1)}} : TRUE

C5_AsClaimed ==
  /\ (pc = "metrics" /\ C5_DefaultCall) => score = C5_Score(idx - 1)
  /\ (pc = "done" /\ C5_DefaultCall) =>
       /\ score = Lit_5_7
       /\ total_weight = Lit_11_4
       /\ normalized_score = Lit_0_5
       /\ result = Hold

\* C5 as amended: the score and the total weight are the floats next below 5.7
\* and 11.4
C5_DefaultsHold ==
  /\ (pc = "metrics" /\ C5_DefaultCall) => score = C5_Score(idx - 1)
  /\ (pc = "done" /\ C5_DefaultCall) =>
       /\ score = FPrev(Lit_5_7)
       /\ total_weight = FPrev(Lit_11_4)
       /\ normalized_score = Lit_0_5
       /\ result = Hold

\* the third call in a row with every metric absent
C5_Witness ==
  /\ pc = "done"
  /\ calls = 3
  /\ C5_DefaultCall
  /\ returned = {<<args, Hold>>}

(***************************************************************************)
(* C6: when every metric lies in its full-credit range the score equals    *)
(* the total weight, the normalised score is exactly 1.0 and the label is  *)
(* Strong Buy.                                                             *)
(***************************************************************************)
C6_AllFull ==
  \A k \in MetricNames : SpecCredit(k, Effective(args, k)) = "full"

C6_FullCreditStrongBuy ==
  (pc = "done" /\ C6_AllFull) =>
    /\ score = total_weight
    /\ normalized_score = Lit_1_0
    /\ result = StrongBuy

C6_Witness ==
  /\ pc = "done"
  /\ args = WithTags(FullCredit, None, "balanced")
  /\ normalized_score = Lit_1_0
  /\ result = StrongBuy

(***************************************************************************)
(* C7: with the other arguments fixed, a larger roe never gives a label of *)
(* lower rank (Sell < Hold < Buy < Strong Buy); roe 8 to 16 with all else  *)
(* default is one case.                                                    *)
(***************************************************************************)
C7_RoeMonotone ==
  pc = "done" =>
    \A r \in Samples.roe :
      r > Effective(args, "roe") =>
        Rank(should_invest([args EXCEPT !.roe = Some(r)])) >= Rank(result)

\* roe 8, all else default, is a Hold; roe 16 is a Buy
C7_Witness ==
  /\ pc = "done"
  /\ args = WithTags([AllAbsent EXCEPT !.roe = Some(8000)], None, "balanced")
  /\ result = Hold
  /\ should_invest([args EXCEPT !.roe = Some(16000)]) = Buy

(***************************************************************************)
(* C8: an absent metric is replaced by its own fixed default: a call with  *)
(* metrics absent returns the label of the call with those metrics set to  *)
(* their defaults.                                                         *)
(***************************************************************************)
C8_Defaulted(a) ==
  [k \in DOMAIN a |->
     IF k \in MetricNames /\ a[k] = None THEN Some(SpecDefaults[k]) ELSE a[k]]

C8_AbsentIsDefault ==
  (pc = "done" /\ \E k \in MetricNames : args[k] = None) =>
    result = should_invest(C8_Defaulted(args))

C8_Witness ==
  /\ pc = "done"
  /\ \A k \in MetricNames : args[k] = None
  /\ args.industry = None
  /\ args.investor_preference = "balanced"
  /\ result = Hold

(***************************************************************************)
(* C9: the total weight is strictly positive for every industry and every  *)
(* preference, so no call returns "Insufficient Data".                     *)
(***************************************************************************)
C9_NeverInsufficient ==
  /\ Adjusted => \A k \in MetricNames : ~IsZero(weights[k])
  /\ Summed => ~IsZero(total_weight)
  /\ pc = "done" => result \in {StrongBuy, Buy, Hold, Sell}

\* an industry and a preference the tables do not know
C9_Witness ==
  /\ pc = "done"
  /\ args.industry = Some("retail")
  /\ args.investor_preference = "income"
  /\ total_weight = FPrev(Lit_11_4)
  /\ result # Insufficient

====
